---- MODULE Spec2Model ----
(***************************************************************************)
(* Model of the county rent / income pipeline of HUD_fmr_project:          *)
(* fmr_census.py (get_census_data, load_fmr_data, integrate_data and the   *)
(* main block that chains them and writes data/census_fmr_county.csv),     *)
(* and of the programs around it: county_geo_id.py, which builds the       *)
(* county identifier file, Wrapper/census.py, which fetches the census     *)
(* tables, and fmr_map_viz.py, the dashboard.  Each program has its own    *)
(* variables and its own specification; the others stay idle in it.        *)
(*                                                                         *)
(* A table (pandas DataFrame) is a sequence of rows; a row is a function   *)
(* from column names to cells.  A numeric cell is an IEEE-754 double,      *)
(* modelled as an exact rational or one of NaN, +inf, -inf: the model      *)
(* keeps the special values and the rules that produce them and leaves out *)
(* binary rounding and the sign of zero.                                   *)
(***************************************************************************)
EXTENDS Integers, Sequences, FiniteSets, TLC

VARIABLES census_csv,    \* data/census_county_data.csv
          fmr_csv,       \* data/county_fmr.csv
          min_wage_csv,  \* data/minimum_wage_by_state.csv
          df_census,     \* result of get_census_data()
          df_fmr,        \* result of load_fmr_data()
          df_integrated, \* result of integrate_data()
          out_csv,       \* data/census_fmr_county.csv
          pc             \* position in the main block

\* county_geo_id.py
VARIABLES fcc_reply,          \* what the FCC server answers to GET fips.txt
          get_count,          \* the GET requests sent to the FCC server
          response,           \* response = requests.get(url)
          line_no,            \* the lines of text that the for loop has taken
          current_state_fips,
          counties_data,
          county_geoid_csv,   \* data/county_geoid.csv
          geo_pc              \* position in the script

\* Wrapper/census.py
VARIABLES api_reply,      \* what the Census server answers to the GET
          api_call,       \* the method of CensusAPIWrapper that is called
          params,         \* the query of the GET
          api_get_count,  \* the GET requests sent to the Census server
          api_response,   \* response = requests.get(self.BASE_URL, params=params)
          api_df,         \* the frame returned to the caller
          api_raised,     \* the exception that left _make_request
          api_pc          \* position in _make_request

\* fmr_map_viz.py
VARIABLES county_csv,        \* data/census_fmr_county.csv as the dashboard reads it
          load_data_cache,   \* lru_cache(maxsize=None) of load_data
          create_map_cache,  \* lru_cache(maxsize=5) of create_map, oldest first
          bedroom_select,    \* value of the bedroom dropdown
          metric_select,     \* value of the metric dropdown
          map_output,        \* figure shown by gr.Plot
          map_title,         \* text shown above the map
          stats_output,      \* HTML of the market statistics
          handler_raised,    \* the last event handler ended with an exception
          app_pc             \* "built" until app.load has run

pipelineVars == <<census_csv, fmr_csv, min_wage_csv, df_census, df_fmr, df_integrated,
                  out_csv, pc>>

geoVars == <<fcc_reply, get_count, response, line_no, current_state_fips, counties_data,
             county_geoid_csv, geo_pc>>

apiVars == <<api_reply, api_call, params, api_get_count, api_response, api_df,
             api_raised, api_pc>>

dashVars == <<county_csv, load_data_cache, create_map_cache, bedroom_select,
              metric_select, map_output, map_title, stats_output, handler_raised,
              app_pc>>

vars == <<pipelineVars, geoVars, apiVars, dashVars>>

(***************************************************************************)
(* Floating point cells                                                    *)
(***************************************************************************)
Abs(i) == IF i < 0 THEN -i ELSE i

Sgn(i) == IF i < 0 THEN -1 ELSE IF i = 0 THEN 0 ELSE 1

RECURSIVE GCD(_, _)
GCD(a, b) == IF b = 0 THEN a ELSE GCD(b, a % b)

NaN == [k |-> "nan", n |-> 0, d |-> 1]

Inf == [k |-> "inf", n |-> 1, d |-> 1]

NegInf == [k |-> "inf", n |-> -1, d |-> 1]

\* The rational n/d (d # 0) in lowest terms with a positive denominator.
Num(n, d) ==
    LET g == GCD(Abs(n), Abs(d))
    IN  [k |-> "num", n |-> (Sgn(d) * n) \div g, d |-> Abs(d) \div g]

Str(s) == [k |-> "str", s |-> s]

IsNaN(x) == x.k = "nan"

IsInf(x) == x.k = "inf"

IsNum(x) == x.k = "num"

SignedInf(s) == IF s < 0 THEN NegInf ELSE Inf

\* a * b
FMul(a, b) ==
    IF IsNaN(a) \/ IsNaN(b) THEN NaN
    ELSE IF IsNum(a) /\ IsNum(b) THEN Num(a.n * b.n, a.d * b.d)
    ELSE IF a.n = 0 \/ b.n = 0 THEN NaN
    ELSE SignedInf(Sgn(a.n) * Sgn(b.n))

\* a / b : a zero divisor gives +-inf, or NaN for 0/0, and never raises
FDiv(a, b) ==
    IF IsNaN(a) \/ IsNaN(b) THEN NaN
    ELSE IF IsNum(a) /\ IsNum(b)
         THEN IF b.n # 0 THEN Num(a.n * b.d, a.d * b.n)
              ELSE IF a.n = 0 THEN NaN ELSE SignedInf(a.n)
    ELSE IF IsInf(a) /\ IsInf(b) THEN NaN
    ELSE IF IsInf(b) THEN Num(0, 1)
    ELSE SignedInf(a.n * (IF b.n < 0 THEN -1 ELSE 1))

\* a + b
FAdd(a, b) ==
    IF IsNaN(a) \/ IsNaN(b) THEN NaN
    ELSE IF IsNum(a) /\ IsNum(b) THEN Num(a.n * b.d + b.n * a.d, a.d * b.d)
    ELSE IF IsInf(a) /\ IsInf(b) THEN (IF a = b THEN a ELSE NaN)
    ELSE IF IsInf(a) THEN a ELSE b

FNeg(a) == IF IsNaN(a) THEN NaN ELSE [a EXCEPT !.n = -a.n]

\* a - b
FSub(a, b) == FAdd(a, FNeg(b))

\* a == b : false whenever an operand is NaN
FEq(a, b) == ~IsNaN(a) /\ ~IsNaN(b) /\ a = b

\* a != b : true whenever an operand is NaN
FNe(a, b) == ~FEq(a, b)

\* a < b : false whenever an operand is NaN
FLt(a, b) ==
    /\ ~IsNaN(a) /\ ~IsNaN(b)
    /\ a # b
    /\ IF IsInf(a) THEN a.n < 0
       ELSE IF IsInf(b) THEN b.n > 0
       ELSE a.n * b.d < b.n * a.d

\* Python's max(x, 0): the first argument stays unless 0 > x
PyMax0(x) == IF FLt(x, Num(0, 1)) THEN Num(0, 1) ELSE x

\* np.where(cond, a, b) on one element
Where(cond, a, b) == IF cond THEN a ELSE b

(***************************************************************************)
(* Strings: str(int) and str.zfill                                         *)
(***************************************************************************)
Digit == <<"0", "1", "2", "3", "4", "5", "6", "7", "8", "9">>

RECURSIVE NatStr(_)
NatStr(i) == IF i < 10 THEN Digit[i + 1] ELSE NatStr(i \div 10) \o Digit[(i % 10) + 1]

\* astype(str) of an integer column
AsStr(i) == IF i < 0 THEN "-" \o NatStr(-i) ELSE NatStr(i)

RECURSIVE Zeros(_)
Zeros(c) == IF c <= 0 THEN "" ELSE "0" \o Zeros(c - 1)

\* one zero put in front, as for an id that lost one leading zero
ZFill_PrefixZero(s, width) == "0" \o s

\* str.zfill(width): zeros go after a leading sign; a long string is kept whole
ZFill(s, width) ==
    IF Len(s) >= width THEN s
    ELSE IF Len(s) > 0 /\ SubSeq(s, 1, 1) \in {"+", "-"}
         THEN SubSeq(s, 1, 1) \o Zeros(width - Len(s)) \o SubSeq(s, 2, Len(s))
         ELSE Zeros(width - Len(s)) \o s

(***************************************************************************)
(* Tables                                                                  *)
(***************************************************************************)
Beds == 0..4

\* f"{name}_{beds}"
Col(name, beds) == name \o "_" \o Digit[beds + 1]

\* df[col] = value, on one row
Set(row, col, value) == (col :> value) @@ row

\* df[cols] : the table restricted to the columns cols
Select(df, cols) == [i \in DOMAIN df |-> [c \in cols |-> df[i][c]]]

\* the rows of df whose key is one of values, in table order
RECURSIVE HasKey(_, _, _)
HasKey(df, key, values) ==
    IF df = <<>> THEN <<>>
    ELSE (IF Head(df)[key] \in values THEN <<Head(df)>> ELSE <<>>)
             \o HasKey(Tail(df), key, values)

RECURSIVE Concat(_, _)
Concat(parts, i) == IF i > Len(parts) THEN <<>> ELSE parts[i] \o Concat(parts, i + 1)

\* pd.merge(left, right, on=key, how="left"): every left row, in left order,
\* once per right row with an equal key, or once with the right columns NaN
\* when no right row has its key.
MergeLeft(left, right, key, rightCols) ==
    LET Joined(l) ==
            LET m == HasKey(right, key, {l[key]})
            IN  IF m = <<>>
                THEN <<[c \in rightCols \ {key} |-> NaN] @@ l>>
                ELSE [j \in DOMAIN m |-> [c \in rightCols \ {key} |-> m[j][c]] @@ l]
    IN  Concat([i \in DOMAIN left |-> Joined(left[i])], 1)

\* the fill forgotten
FillNa0_None(df) == df

\* df.fillna(0)
FillNa0(df) ==
    [i \in DOMAIN df |->
        [c \in DOMAIN df[i] |-> IF IsNaN(df[i][c]) THEN Num(0, 1) ELSE df[i][c]]]

\* left.merge(right, on=key, how="right"): every right row, in right order,
\* once per left row with an equal key, or once with the left columns NaN
MergeRight(left, right, key, leftCols) ==
    LET Joined(r) ==
            LET m == HasKey(left, key, {r[key]})
            IN  IF m = <<>>
                THEN <<[c \in leftCols \ {key} |-> NaN] @@ r>>
                ELSE [j \in DOMAIN m |-> [c \in leftCols \ {key} |-> m[j][c]] @@ r]
    IN  Concat([i \in DOMAIN right |-> Joined(right[i])], 1)

\* sum(axis=0) in place of sum(axis=1): the listed columns summed down the table
RECURSIVE RowSum_Axis0(_, _, _)
RowSum_Axis0(df, i, cols) ==
    IF df = <<>> THEN Num(0, 1)
    ELSE LET rest == RowSum_Axis0(Tail(df), i, cols)
             SumOf[j \in 0..Len(cols)] ==
                 IF j = 0 THEN Num(0, 1) ELSE FAdd(Head(df)[cols[j]], SumOf[j - 1])
         IN  FAdd(SumOf[Len(cols)], rest)

\* the sum of the cells of a row in the columns cols, NaN cells skipped
RECURSIVE SumCells(_, _)
SumCells(row, cols) ==
    IF cols = <<>> THEN Num(0, 1)
    ELSE LET rest == SumCells(row, Tail(cols))
         IN  IF IsNaN(row[Head(cols)]) THEN rest ELSE FAdd(row[Head(cols)], rest)

\* df[cols].sum(axis=1), the element of row i
RowSum(df, i, cols) == SumCells(df[i], cols)

(***************************************************************************)
(* fmr_census.py                                                           *)
(***************************************************************************)
CensusCols ==
    {"GEOID", "state_fips", "median_household_income", "median_gross_rent",
     "total_renter_households_cost", "rent_30_to_34_9_percent",
     "rent_35_to_39_9_percent", "rent_40_to_49_9_percent",
     "rent_50_percent_or_more"}

FmrCols ==
    {"GEOID", "county_name", "state_name", "fmr_0", "fmr_1", "fmr_2", "fmr_3",
     "fmr_4", "geometry"}

MinWageCols == {"min_wage", "state_fips"}

cost_burdened_cols ==
    <<"rent_30_to_34_9_percent", "rent_35_to_39_9_percent",
      "rent_40_to_49_9_percent", "rent_50_percent_or_more">>

\* astype(str) on one cell: a string stays as it is
AsStrCell(cell) == IF cell.k = "str" THEN cell.s ELSE AsStr(cell.n)

\* the conversion to a string without the fill
PadGeoid_NoFill(cell) == Str(AsStrCell(cell))

\* df["GEOID"].astype(str).str.zfill(5), on one cell
PadGeoid(cell) == Str(ZFill(AsStrCell(cell), 5))

\* np.where(df[col] < 0, np.nan, df[col]), on one cell
NullNegative(cell) == Where(FLt(cell, Num(0, 1)), NaN, cell)

get_census_data(csv) ==
    [i \in DOMAIN csv |->
        LET r1 == Set(csv[i], "GEOID", PadGeoid(csv[i]["GEOID"]))
            r2 == Set(r1, "median_gross_rent", NullNegative(r1["median_gross_rent"]))
        IN  Set(r2, "median_household_income",
                NullNegative(r2["median_household_income"]))]

load_fmr_data(csv) ==
    Select([i \in DOMAIN csv |-> Set(csv[i], "GEOID", PadGeoid(csv[i]["GEOID"]))],
           FmrCols)

\* the monthly rent over the yearly income: "* 12" left out
RentToIncomeRatio_Monthly(row, beds) ==
    FMul(FDiv(row[Col("fmr", beds)], row["median_household_income"]), Num(100, 1))

\* (fmr_b * 12) / median_household_income * 100
RentToIncomeRatio(row, beds) ==
    FMul(FDiv(FMul(row[Col("fmr", beds)], Num(12, 1)), row["median_household_income"]),
         Num(100, 1))

\* np.where(fmr_b == 0, np.nan, median_gross_rent): the column is overwritten
NullRentWhereNoFmr(row, beds) ==
    Where(FEq(row[Col("fmr", beds)], Num(0, 1)), NaN, row["median_gross_rent"])

RentToIncomeLoop(df, beds) ==
    [i \in DOMAIN df |->
        LET r1 == Set(df[i], Col("rent_to_income_ratio", beds),
                      RentToIncomeRatio(df[i], beds))
        IN  Set(r1, "median_gross_rent", NullRentWhereNoFmr(r1, beds))]

\* the share left as a fraction: "* 100" left out
PctCostBurdened_Fraction(df, i) ==
    FDiv(RowSum(df, i, cost_burdened_cols), df[i]["total_renter_households_cost"])

PctCostBurdened(df, i) ==
    FMul(FDiv(RowSum(df, i, cost_burdened_cols), df[i]["total_renter_households_cost"]),
         Num(100, 1))

PctSevereCostBurdened(row) ==
    FMul(FDiv(row["rent_50_percent_or_more"], row["total_renter_households_cost"]),
         Num(100, 1))

CostBurden(df) ==
    [i \in DOMAIN df |->
        LET r1 == Set(df[i], "pct_cost_burdened", PctCostBurdened(df, i))
        IN  Set(r1, "pct_severe_cost_burdened", PctSevereCostBurdened(r1))]

\* fmr_b - median_gross_rent
FmrVsMedianRentDiff(row, beds) == FSub(row[Col("fmr", beds)], row["median_gross_rent"])

\* np.where((median_gross_rent != 0) & (fmr_1 != 0), (fmr_b - mgr) / mgr * 100, nan)
FmrVsMedianRentPercent(row, beds) ==
    Where(FNe(row["median_gross_rent"], Num(0, 1)) /\ FNe(row["fmr_1"], Num(0, 1)),
          FMul(FDiv(FSub(row[Col("fmr", beds)], row["median_gross_rent"]),
                    row["median_gross_rent"]),
               Num(100, 1)),
          NaN)

MedianRentLoop(df, beds) ==
    [i \in DOMAIN df |->
        LET r1 == Set(df[i], Col("fmr_vs_median_rent_diff", beds),
                      FmrVsMedianRentDiff(df[i], beds))
        IN  Set(r1, Col("fmr_vs_median_rent_percent", beds),
                FmrVsMedianRentPercent(r1, beds))]

\* ((fmr_b * 12) - income * 0.3).apply(lambda x: max(x, 0))
ClampedGap(row, beds) ==
    PyMax0(FSub(FMul(row[Col("fmr", beds)], Num(12, 1)),
                FMul(row["median_household_income"], Num(3, 10))))

\* the zero gap kept
NullZeroGap_Keep(gap) == gap

\* np.where(gap == 0, np.nan, gap)
NullZeroGap(gap) == Where(FEq(gap, Num(0, 1)), NaN, gap)

AffordabilityGapLoop(df, beds) ==
    [i \in DOMAIN df |->
        LET r1 == Set(df[i], Col("affordability_gap", beds), ClampedGap(df[i], beds))
        IN  Set(r1, Col("affordability_gap", beds),
                NullZeroGap(r1[Col("affordability_gap", beds)]))]

\* the infinities kept
ReplaceInf_None(x) == x

\* .replace([float('inf'), -float('inf')], 0)
ReplaceInf(x) == IF IsInf(x) THEN Num(0, 1) ELSE x

\* (fmr_b / median_gross_rent).replace([inf, -inf], 0) * 100
VoucherFeasibility(row, beds) ==
    FMul(ReplaceInf(FDiv(row[Col("fmr", beds)], row["median_gross_rent"])), Num(100, 1))

\* (fmr_b * 12) / 2080
HousingWage(row, beds) == FDiv(FMul(row[Col("fmr", beds)], Num(12, 1)), Num(2080, 1))

\* housing_wage_b / min_wage * 100
HousingWageToMinWage(row, beds) ==
    FMul(FDiv(row[Col("housing_wage", beds)], row["min_wage"]), Num(100, 1))

VoucherWageLoop(df, beds) ==
    [i \in DOMAIN df |->
        LET r1 == Set(df[i], Col("voucher_feasibility", beds),
                      VoucherFeasibility(df[i], beds))
            r2 == Set(r1, Col("housing_wage", beds), HousingWage(r1, beds))
        IN  Set(r2, Col("housing_wage_to_min_wage", beds), HousingWageToMinWage(r2, beds))]

\* how="right": the join keeps the rent table
MergeCensusFmr_Right(census, fmr) == MergeRight(census, fmr, "GEOID", CensusCols)

\* pd.merge(df_census, df_fmr, on="GEOID", how="left")
MergeCensusFmr(census, fmr) == MergeLeft(census, fmr, "GEOID", FmrCols)

\* how="inner": a record whose state has no minimum-wage row is dropped
MergeMinWage_Inner(min_wage_df, df) ==
    HasKey(MergeRight(Select(min_wage_df, MinWageCols), df, "state_fips", MinWageCols),
           "state_fips", {min_wage_df[i]["state_fips"] : i \in DOMAIN min_wage_df})

\* min_wage_df[['min_wage', 'state_fips']].merge(df, on='state_fips', how='right')
MergeMinWage(min_wage_df, df) ==
    MergeRight(Select(min_wage_df, MinWageCols), df, "state_fips", MinWageCols)

integrate_data(census, fmr, min_wage_df) ==
    \* each loop[n] is the table after the first n rounds of "for beds in range(5)"
    LET merged == FillNa0(MergeCensusFmr(census, fmr))
        ratios[n \in 0..5] ==
            IF n = 0 THEN merged ELSE RentToIncomeLoop(ratios[n - 1], n - 1)
        burden == CostBurden(ratios[5])
        rents[n \in 0..5] ==
            IF n = 0 THEN burden ELSE MedianRentLoop(rents[n - 1], n - 1)
        gaps[n \in 0..5] ==
            IF n = 0 THEN rents[5] ELSE AffordabilityGapLoop(gaps[n - 1], n - 1)
        waged == MergeMinWage(min_wage_df, gaps[5])
        wages[n \in 0..5] ==
            IF n = 0 THEN waged ELSE VoucherWageLoop(wages[n - 1], n - 1)
    IN  wages[5]

(***************************************************************************)
(* Input files                                                             *)
(***************************************************************************)
MaxOtherCensus == 1

MaxOtherFmr == 1

MaxMinWageRows == 1

SeqsUpTo(S, n) == UNION {[1..m -> S] : m \in 0..n}

CensusCsvRow(geoid, state, income, rent, total, severe) ==
    [GEOID |-> Num(geoid, 1), state_fips |-> Num(state, 1),
     median_household_income |-> income, median_gross_rent |-> rent,
     total_renter_households_cost |-> Num(total, 1),
     rent_30_to_34_9_percent |-> Num(10, 1), rent_35_to_39_9_percent |-> Num(6, 1),
     rent_40_to_49_9_percent |-> Num(4, 1), rent_50_percent_or_more |-> Num(severe, 1)]

\* a missing field, the Census placeholder for "no estimate" (negative), zero, a value
IncomeCells == {NaN, Num(-666, 1), Num(0, 1), Num(40000, 1)}

RentCells == {NaN, Num(0, 1), Num(900, 1)}

\* <<total_renter_households_cost, rent_50_percent_or_more>>
BurdenCounts == {<<0, 20>>, <<100, 20>>}

FocusCensusRows ==
    {CensusCsvRow(1001, 1, income, rent, c[1], c[2]) :
        income \in IncomeCells, rent \in RentCells, c \in BurdenCounts}

OtherCensusRows == {CensusCsvRow(2013, 2, NaN, Num(-666, 1), 50, 5)}

FmrCsvRow(geoid, name, zero) ==
    [GEOID |-> Num(geoid, 1), state |-> Num(geoid \div 1000, 1),
     county_name |-> Str(name), state_name |-> Str("Alabama"),
     geometry |-> Str("POLYGON"),
     fmr_0 |-> Num(IF 0 \in zero THEN 0 ELSE 800, 1),
     fmr_1 |-> Num(IF 1 \in zero THEN 0 ELSE 900, 1),
     fmr_2 |-> Num(IF 2 \in zero THEN 0 ELSE 1000, 1),
     fmr_3 |-> Num(IF 3 \in zero THEN 0 ELSE 1100, 1),
     fmr_4 |-> Num(IF 4 \in zero THEN 0 ELSE 1200, 1)]

\* the rent record of county 01001, if any: no fmr_b, one fmr_b or every fmr_b
\* is zero
ZeroPatterns == {z \in SUBSET Beds : Cardinality(z) \in {0, 1, 5}}

FocusFmrTables == {<<>>} \cup {<<FmrCsvRow(1001, "AUTAUGA COUNTY", z)>> : z \in ZeroPatterns}

\* a rent record of a county that the county attribute table does not have
OtherFmrRows == {FmrCsvRow(56045, "WESTON COUNTY", {})}

MinWageRows ==
    {[state_fips |-> Num(1, 1), min_wage |-> w, state |-> Str("Alabama")] :
        w \in {Num(0, 1), Num(29, 4)}}

\* county_geo_id.py is not running
GeoIdle ==
    /\ fcc_reply = [status_code |-> 200, text |-> <<>>]
    /\ get_count = 0
    /\ response = [status_code |-> 0, text |-> <<>>]
    /\ line_no = 0
    /\ current_state_fips = ""
    /\ counties_data = <<>>
    /\ county_geoid_csv = <<>>
    /\ geo_pc = "idle"

\* fmr_census.py is not running
PipelineIdle ==
    /\ census_csv = <<>>
    /\ fmr_csv = <<>>
    /\ min_wage_csv = <<>>
    /\ df_census = <<>>
    /\ df_fmr = <<>>
    /\ df_integrated = <<>>
    /\ out_csv = <<>>
    /\ pc = "idle"

\* no method of CensusAPIWrapper is running
ApiIdle ==
    /\ api_reply = [status_code |-> 200, text |-> "", is_json |-> FALSE, json |-> <<>>]
    /\ api_call = [method |-> "", state_fips |-> ""]
    /\ params = <<>>
    /\ api_get_count = 0
    /\ api_response = [status_code |-> 0, text |-> "", is_json |-> FALSE, json |-> <<>>]
    /\ api_df = <<>>
    /\ api_raised = <<>>
    /\ api_pc = "idle"

\* what the page shows before any handler has run: gr.Plot without a figure,
\* the gr.Markdown and gr.HTML texts of the layout
NoFigure == <<>>

LayoutTitle == "## FMR vs Median Rent Difference Distribution - 2-Bedroom Units"

LayoutStats == [i \in 1..8 |-> "-"]

\* fmr_map_viz.py is not running
DashIdle ==
    /\ county_csv = <<>>
    /\ load_data_cache = <<>>
    /\ create_map_cache = <<>>
    /\ bedroom_select = "2-Bedroom"
    /\ metric_select = "FMR vs Median Rent Difference"
    /\ map_output = NoFigure
    /\ map_title = LayoutTitle
    /\ stats_output = LayoutStats
    /\ handler_raised = FALSE
    /\ app_pc = "idle"

(***************************************************************************)
(* The main block of fmr_census.py                                         *)
(***************************************************************************)
Init ==
    /\ census_csv \in {<<focus>> \o other :
                          focus \in FocusCensusRows,
                          other \in SeqsUpTo(OtherCensusRows, MaxOtherCensus)}
    /\ fmr_csv \in {focus \o other :
                       focus \in FocusFmrTables,
                       other \in SeqsUpTo(OtherFmrRows, MaxOtherFmr)}
    /\ min_wage_csv \in SeqsUpTo(MinWageRows, MaxMinWageRows)
    /\ df_census = <<>>
    /\ df_fmr = <<>>
    /\ df_integrated = <<>>
    /\ out_csv = <<>>
    /\ pc = "start"
    /\ GeoIdle
    /\ ApiIdle
    /\ DashIdle

\* df_census = get_census_data()
GetCensusData ==
    /\ pc = "start"
    /\ df_census' = get_census_data(census_csv)
    /\ pc' = "census_loaded"
    /\ UNCHANGED <<census_csv, fmr_csv, min_wage_csv, df_fmr, df_integrated, out_csv>>
    /\ UNCHANGED <<geoVars, apiVars, dashVars>>

\* df_fmr = load_fmr_data("data/county_fmr.csv")
LoadFmrData ==
    /\ pc = "census_loaded"
    /\ df_fmr' = load_fmr_data(fmr_csv)
    /\ pc' = "fmr_loaded"
    /\ UNCHANGED <<census_csv, fmr_csv, min_wage_csv, df_census, df_integrated, out_csv>>
    /\ UNCHANGED <<geoVars, apiVars, dashVars>>

\* df_integrated = integrate_data(df_census, df_fmr)
IntegrateData ==
    /\ pc = "fmr_loaded"
    /\ df_integrated' = integrate_data(df_census, df_fmr, min_wage_csv)
    /\ pc' = "integrated"
    /\ UNCHANGED <<census_csv, fmr_csv, min_wage_csv, df_census, df_fmr, out_csv>>
    /\ UNCHANGED <<geoVars, apiVars, dashVars>>

\* df_integrated.to_csv("data/census_fmr_county.csv", index=False)
SaveCsv ==
    /\ pc = "integrated"
    /\ out_csv' = df_integrated
    /\ pc' = "saved"
    /\ UNCHANGED <<census_csv, fmr_csv, min_wage_csv, df_census, df_fmr, df_integrated>>
    /\ UNCHANGED <<geoVars, apiVars, dashVars>>

Next == GetCensusData \/ LoadFmrData \/ IntegrateData \/ SaveCsv

Spec == Init /\ [][Next]_vars

(***************************************************************************)
(* The same main block on files whose ids have from 1 to MaxIdDigits       *)
(* digits                                                                  *)
(***************************************************************************)
MaxIdDigits == 6

RECURSIVE Pow10(_)
Pow10(e) == IF e = 0 THEN 1 ELSE 10 * Pow10(e - 1)

\* the smallest and the largest id of each length, and two county ids
IdValues ==
    {Pow10(e - 1) : e \in 1..MaxIdDigits} \cup {Pow10(e) - 1 : e \in 1..MaxIdDigits}
        \cup {1001, 56045}

InitIds ==
    /\ census_csv \in {<<CensusCsvRow(id, 1, Num(40000, 1), Num(900, 1), 100, 20)>> :
                          id \in IdValues}
    /\ fmr_csv \in {<<FmrCsvRow(id, "AUTAUGA COUNTY", {})>> : id \in IdValues}
    /\ min_wage_csv = <<>>
    /\ df_census = <<>>
    /\ df_fmr = <<>>
    /\ df_integrated = <<>>
    /\ out_csv = <<>>
    /\ pc = "start"
    /\ GeoIdle
    /\ ApiIdle
    /\ DashIdle

SpecIds == InitIds /\ [][Next]_vars

(***************************************************************************)
(* county_geo_id.py                                                        *)
(*                                                                         *)
(* response.text is kept as the sequence of its lines, text.split("\n").   *)
(* \s is the blank and the tab, \d the ten ASCII digits.  None, the value  *)
(* of current_state_fips before the first state line, is the empty string: *)
(* both are false in "if county_match and current_state_fips".             *)
(***************************************************************************)
Whitespace == {" ", "\t"}

UpperLetters == "ABCDEFGHIJKLMNOPQRSTUVWXYZ"

LowerLetters == "abcdefghijklmnopqrstuvwxyz"

Ch(s, i) == SubSeq(s, i, i)

IsDigit(c) == \E i \in 1..10 : Digit[i] = c

IsUpper(c) == \E i \in 1..26 : Ch(UpperLetters, i) = c

\* str.upper() on one character
UpperCh(c) ==
    IF \E i \in 1..26 : Ch(LowerLetters, i) = c
    THEN Ch(UpperLetters, CHOOSE i \in 1..26 : Ch(LowerLetters, i) = c)
    ELSE c

\* str.upper()
RECURSIVE Upper(_)
Upper(s) == IF Len(s) = 0 THEN "" ELSE UpperCh(Ch(s, 1)) \o Upper(SubSeq(s, 2, Len(s)))

\* the string without its leading whitespace
RECURSIVE LStrip(_)
LStrip(s) ==
    IF Len(s) > 0 /\ Ch(s, 1) \in Whitespace THEN LStrip(SubSeq(s, 2, Len(s))) ELSE s

\* the string without its trailing whitespace
RECURSIVE RStrip(_)
RStrip(s) ==
    IF Len(s) > 0 /\ Ch(s, Len(s)) \in Whitespace
    THEN RStrip(SubSeq(s, 1, Len(s) - 1)) ELSE s

\* str.strip()
Strip(s) == RStrip(LStrip(s))

\* str.endswith(suffix)
EndsWith(s, suffix) ==
    Len(s) >= Len(suffix) /\ SubSeq(s, Len(s) - Len(suffix) + 1, Len(s)) = suffix

\* re.match(r"^\s*(\d{2})\s+([A-Z\s]+)$", line) matches
StateMatch(line) ==
    LET t == LStrip(line)
    IN  /\ Len(t) >= 4
        /\ IsDigit(Ch(t, 1)) /\ IsDigit(Ch(t, 2))
        /\ Ch(t, 3) \in Whitespace
        /\ \A i \in 4..Len(t) : IsUpper(Ch(t, i)) \/ Ch(t, i) \in Whitespace

\* state_match.group(1)
StateGroup1(line) == SubSeq(LStrip(line), 1, 2)

\* re.match(r"^\s*(\d{5})\s+(.+)$", line) matches
CountyMatch(line) ==
    LET t == LStrip(line)
    IN  /\ Len(t) >= 7
        /\ \A i \in 1..5 : IsDigit(Ch(t, i))
        /\ Ch(t, 6) \in Whitespace

\* county_match.group(1)
CountyGroup1(line) == SubSeq(LStrip(line), 1, 5)

\* county_match.group(2).strip(): what follows the code and its whitespace
CountyGroup2Stripped(line) == LET t == LStrip(line) IN Strip(SubSeq(t, 6, Len(t)))

NameSuffixes == {"COUNTY", "PARISH", "BOROUGH", "CENSUS AREA", "MUNICIPIO"}

\* the suffix, with whitespace before it, ends the name (re.IGNORECASE)
HasSuffix(name, suffix) ==
    /\ Len(name) > Len(suffix)
    /\ EndsWith(Upper(name), suffix)
    /\ Ch(name, Len(name) - Len(suffix)) \in Whitespace

\* re.sub(r"\s+County$|\s+Parish$|...", "", county_name, flags=re.IGNORECASE).strip()
CleanName(county_name) ==
    IF \E suffix \in NameSuffixes : HasSuffix(county_name, suffix)
    THEN LET suffix == CHOOSE x \in NameSuffixes : HasSuffix(county_name, x)
         IN  Strip(SubSeq(county_name, 1, Len(county_name) - Len(suffix)))
    ELSE Strip(county_name)

\* fips_code.endswith("000")
IsStateLevel(fips_code) == EndsWith(fips_code, "000")

\* current_state_fips after one line
NextStateFips(line, state_fips) ==
    IF StateMatch(line) THEN StateGroup1(line) ELSE state_fips

\* the entries that one line of the text adds to counties_data
CountyEntries(line, state_fips) ==
    IF Len(line) = 0 \/ StateMatch(line) THEN <<>>
    ELSE IF CountyMatch(line) /\ state_fips # "" /\ ~IsStateLevel(CountyGroup1(line))
         THEN <<[STATEFP |-> state_fips, GEOID |-> CountyGroup1(line),
                 county_name |-> Upper(CleanName(CountyGroup2Stripped(line)))]>>
         ELSE <<>>

\* STATEFP taken from the header line above the county
FipsDf_HeaderState(data) ==
    [i \in DOMAIN data |-> [data[i] EXCEPT !.county_name = @ \o " COUNTY"]]

\* fips_df: county_name + ' COUNTY', STATEFP = GEOID.astype(str).str[:2]
FipsDf(data) ==
    [i \in DOMAIN data |->
        [data[i] EXCEPT !.county_name = @ \o " COUNTY",
                        !.STATEFP = SubSeq(data[i].GEOID, 1, 2)]]

MaxLines == 3

GeoLines ==
    {"01        ALABAMA", "02        ALASKA", "01000        Alabama",
     "01001        Autauga County", "\t02013  Aleutians East Borough ", "",
     "county-level      place"}

StatusCodes == {200, 404, 503}

InitGeo ==
    /\ fcc_reply \in [status_code : StatusCodes, text : SeqsUpTo(GeoLines, MaxLines)]
    /\ get_count = 0
    /\ response = [status_code |-> 0, text |-> <<>>]
    /\ line_no = 0
    /\ current_state_fips = ""
    /\ counties_data = <<>>
    /\ county_geoid_csv = <<>>
    /\ geo_pc = "start"
    /\ PipelineIdle
    /\ ApiIdle
    /\ DashIdle

\* response = requests.get(url); text = response.text: the status is not read
GeoFetch ==
    /\ geo_pc = "start"
    /\ get_count' = get_count + 1
    /\ response' = fcc_reply
    /\ geo_pc' = "loop"
    /\ UNCHANGED <<fcc_reply, line_no, current_state_fips, counties_data,
                   county_geoid_csv>>
    /\ UNCHANGED <<pipelineVars, apiVars, dashVars>>

\* one round of "for line in text.split("\n")"
GeoLine ==
    /\ geo_pc = "loop"
    /\ line_no < Len(response.text)
    /\ LET line == Strip(response.text[line_no + 1])
       IN  /\ counties_data' = counties_data \o CountyEntries(line, current_state_fips)
           /\ current_state_fips' =
                  IF Len(line) = 0 THEN current_state_fips
                  ELSE NextStateFips(line, current_state_fips)
    /\ line_no' = line_no + 1
    /\ UNCHANGED <<fcc_reply, get_count, response, county_geoid_csv, geo_pc>>
    /\ UNCHANGED <<pipelineVars, apiVars, dashVars>>

\* fips_df = pd.DataFrame(counties_data) ... fips_df.to_csv(...): the frame of
\* an empty list has no column, and fips_df['county_name'] raises KeyError
GeoSave ==
    /\ geo_pc = "loop"
    /\ line_no = Len(response.text)
    /\ IF counties_data = <<>>
       THEN /\ geo_pc' = "raised KeyError"
            /\ UNCHANGED county_geoid_csv
       ELSE /\ geo_pc' = "saved"
            /\ county_geoid_csv' = FipsDf(counties_data)
    /\ UNCHANGED <<fcc_reply, get_count, response, line_no, current_state_fips,
                   counties_data>>
    /\ UNCHANGED <<pipelineVars, apiVars, dashVars>>

NextGeo == GeoFetch \/ GeoLine \/ GeoSave

SpecGeo == InitGeo /\ [][NextGeo]_vars

(***************************************************************************)
(* Wrapper/census.py                                                       *)
(*                                                                         *)
(* A response is its status, its text and what response.json() makes of    *)
(* the text: is_json tells whether the text parses, json is the parsed     *)
(* list of rows, the first of them the header.                             *)
(***************************************************************************)
BASE_URL == "https://api.census.gov/data/2023/acs/acs5"

api_key == "KEY"

variables == <<"B25064_001E">>

\* ",".join(names)
RECURSIVE JoinComma(_)
JoinComma(names) ==
    IF Len(names) = 0 THEN ""
    ELSE IF Len(names) = 1 THEN names[1]
    ELSE names[1] \o "," \o JoinComma(Tail(names))

\* params of get_state_data, get_zip_data and get_county_data
ParamsOf(call) ==
    LET for == IF call.method = "get_state_data" THEN "state:*"
               ELSE IF call.method = "get_zip_data" THEN "zip code tabulation area:*"
               ELSE "county:*"
        base == ("get" :> JoinComma(variables \o <<"NAME">>)) @@ ("for" :> for)
                    @@ ("key" :> api_key)
    IN  IF call.method = "get_county_data" /\ call.state_fips # ""
        THEN base @@ ("in" :> ("state:" \o call.state_fips))
        ELSE base

\* f"API Request Failed: {response.status_code} - {response.text}"
FailureMessage(resp) ==
    "API Request Failed: " \o NatStr(resp.status_code) \o " - " \o resp.text

\* df.rename(columns={...})
RenameColumn(name) ==
    IF name = "zip code tabulation area" THEN "zip_code"
    ELSE IF name = "state" THEN "state_fips"
    ELSE IF name = "county" THEN "county_fips"
    ELSE name

\* pd.DataFrame(data[1:], columns=data[0]) with the columns renamed
ApiFrame(data) ==
    [columns |-> [i \in DOMAIN data[1] |-> RenameColumn(data[1][i])],
     rows |-> Tail(data)]

ApiCalls ==
    {[method |-> m, state_fips |-> ""] :
        m \in {"get_state_data", "get_zip_data", "get_county_data"}}
    \cup {[method |-> "get_county_data", state_fips |-> "01"]}

ApiBodies ==
    {[text |-> "[[\"NAME\",\"state\"],[\"Alabama\",\"01\"]]", is_json |-> TRUE,
      json |-> <<<<"NAME", "state">>, <<"Alabama", "01">>>>],
     [text |-> "[[\"NAME\",\"state\",\"county\"]]", is_json |-> TRUE,
      json |-> << <<"NAME", "state", "county">> >>],
     [text |-> "[]", is_json |-> TRUE, json |-> <<>>],
     [text |-> "error: unknown variable", is_json |-> FALSE, json |-> <<>>],
     [text |-> "", is_json |-> FALSE, json |-> <<>>]}

ApiReplies ==
    {[status_code |-> c, text |-> b.text, is_json |-> b.is_json, json |-> b.json] :
        c \in StatusCodes, b \in ApiBodies}

InitApi ==
    /\ api_reply \in ApiReplies
    /\ api_call \in ApiCalls
    /\ params = <<>>
    /\ api_get_count = 0
    /\ api_response = [status_code |-> 0, text |-> "", is_json |-> FALSE, json |-> <<>>]
    /\ api_df = <<>>
    /\ api_raised = <<>>
    /\ api_pc = "called"
    /\ PipelineIdle
    /\ GeoIdle
    /\ DashIdle

\* get_state_data, get_zip_data, get_county_data up to the GET of _make_request
ApiGet ==
    /\ api_pc = "called"
    /\ params' = ParamsOf(api_call)
    /\ api_get_count' = api_get_count + 1
    /\ api_response' = api_reply
    /\ api_pc' = "got"
    /\ UNCHANGED <<api_reply, api_call, api_df, api_raised>>
    /\ UNCHANGED <<pipelineVars, geoVars, dashVars>>

\* if response.status_code != 200: raise Exception(...)
ApiRaise ==
    /\ api_pc = "got"
    /\ api_response.status_code # 200
    /\ api_raised' = <<[type |-> "Exception", message |-> FailureMessage(api_response)]>>
    /\ api_pc' = "raised"
    /\ UNCHANGED <<api_reply, api_call, params, api_get_count, api_response, api_df>>
    /\ UNCHANGED <<pipelineVars, geoVars, dashVars>>

\* data = response.json(); df = pd.DataFrame(data[1:], columns=data[0]); rename
ApiReturn ==
    /\ api_pc = "got"
    /\ api_response.status_code = 200
    /\ IF ~api_response.is_json
       THEN /\ api_raised' = <<[type |-> "JSONDecodeError", message |-> ""]>>
            /\ api_pc' = "raised"
            /\ UNCHANGED api_df
       ELSE IF api_response.json = <<>>
       THEN /\ api_raised' = <<[type |-> "IndexError", message |-> ""]>>
            /\ api_pc' = "raised"
            /\ UNCHANGED api_df
       ELSE /\ api_df' = <<ApiFrame(api_response.json)>>
            /\ api_pc' = "returned"
            /\ UNCHANGED api_raised
    /\ UNCHANGED <<api_reply, api_call, params, api_get_count, api_response>>
    /\ UNCHANGED <<pipelineVars, geoVars, dashVars>>

NextApi == ApiGet \/ ApiRaise \/ ApiReturn

\* the two programs that fetch over HTTP: one of them runs
InitFetch == InitGeo \/ InitApi

NextFetch == NextGeo \/ NextApi

SpecFetch == InitFetch /\ [][NextFetch]_vars

(***************************************************************************)
(* fmr_map_viz.py                                                          *)
(*                                                                         *)
(* The page is the values of its two dropdowns and of its three outputs.   *)
(* An event handler runs to its end before the next event is taken.  A     *)
(* handler that raises leaves the outputs as they are.  A figure is the    *)
(* record of what create_map gives to go.Choropleth and update_layout from *)
(* the data; the statistics are the eight strings put in the HTML list.    *)
(***************************************************************************)
bedroom_choices == <<"0-Bedroom", "1-Bedroom", "2-Bedroom", "3-Bedroom", "4-Bedroom">>

metric_choices ==
    <<"FMR", "Rent-to-Income Ratio", "FMR vs Median Rent Difference",
      "FMR Deviation from Median Rent (%)", "Affordability Gap", "Voucher Feasibility",
      "Cost Burden", "Severe Cost Burden", "Housing Wage">>

fmr_cols == {Col("fmr", i) : i \in Beds}

numeric_cols ==
    fmr_cols
    \cup {Col(name, i) : name \in {"rent_to_income_ratio", "fmr_vs_median_rent_diff",
                                   "fmr_vs_median_rent_percent", "affordability_gap",
                                   "voucher_feasibility", "housing_wage"},
                         i \in Beds}
    \cup {"pct_cost_burdened", "pct_severe_cost_burdened"}

\* pd.to_numeric(errors='coerce') on one cell
ToNumeric(cell) == IF cell.k = "str" THEN NaN ELSE cell

\* the rows of df that satisfy keep, in table order
RECURSIVE Keep(_, _)
Keep(df, keep) ==
    IF df = <<>> THEN <<>>
    ELSE (IF keep[Head(df)] THEN <<Head(df)>> ELSE <<>>) \o Keep(Tail(df), keep)

\* load_data(): the first element of the pair it returns
load_data(csv) ==
    LET rows == {csv[i] : i \in DOMAIN csv}
        df == Keep(csv, [r \in rows |-> ~IsNaN(r.geometry) /\ r.geometry # Str("0")])
        gdf == Keep(df, [r \in rows |-> ~(\A c \in fmr_cols : FEq(r[c], Num(0, 1)))])
    IN  [i \in DOMAIN gdf |->
            [c \in DOMAIN gdf[i] |->
                IF c \in numeric_cols THEN ToNumeric(gdf[i][c]) ELSE gdf[i][c]]]

\* int(bedroom_type[0])
bedroom_num(bedroom_type) == CHOOSE n \in 0..9 : Digit[n + 1] = Ch(bedroom_type, 1)

\* metric_mapping[metric_type]
metric_col(bedroom_type, metric_type) ==
    LET n == bedroom_num(bedroom_type)
    IN  CASE metric_type = "FMR" -> Col("fmr", n)
          [] metric_type = "Rent-to-Income Ratio" -> Col("rent_to_income_ratio", n)
          [] metric_type = "FMR vs Median Rent Difference" -> Col("fmr_vs_median_rent_diff", n)
          [] metric_type = "FMR Deviation from Median Rent (%)" ->
                 Col("fmr_vs_median_rent_percent", n)
          [] metric_type = "Affordability Gap" -> Col("affordability_gap", n)
          [] metric_type = "Voucher Feasibility" -> Col("voucher_feasibility", n)
          [] metric_type = "Cost Burden" -> "pct_cost_burdened"
          [] metric_type = "Severe Cost Burden" -> "pct_severe_cost_burdened"
          [] metric_type = "Housing Wage" -> Col("housing_wage", n)

\* the format strings '${:.2f}', '{:.1f}%' and '${:.2f}/hr'
Dollars == [prefix |-> "$", decimals |-> 2, suffix |-> ""]

Percent == [prefix |-> "", decimals |-> 1, suffix |-> "%"]

DollarsPerHour == [prefix |-> "$", decimals |-> 2, suffix |-> "/hr"]

\* the nearest integer to sqrt(n / d), searched between lo and hi
RECURSIVE SqrtRound(_, _, _, _)
SqrtRound(n, d, lo, hi) ==
    IF lo >= hi THEN lo
    ELSE LET mid == (lo + hi + 1) \div 2
         IN  IF (2 * mid - 1) * (2 * mid - 1) * d <= 4 * n
             THEN SqrtRound(n, d, mid, hi)
             ELSE SqrtRound(n, d, lo, mid - 1)

\* '{:.<decimals>f}'.format(x): x a double or the square root of a rational
FormatFixed(x, decimals) ==
    LET scale == Pow10(decimals)
        q == (Abs(x.n) * scale) \div x.d
        r == (Abs(x.n) * scale) % x.d
        rounded == IF x.k = "sqrt" THEN SqrtRound(x.n * scale * scale, x.d, 0, 4096)
                   ELSE IF 2 * r > x.d \/ (2 * r = x.d /\ q % 2 = 1) THEN q + 1 ELSE q
    IN  IF IsNaN(x) THEN "nan"
        ELSE IF IsInf(x) THEN (IF x.n < 0 THEN "-inf" ELSE "inf")
        ELSE (IF x.n < 0 THEN "-" ELSE "") \o NatStr(rounded \div scale) \o "."
                 \o ZFill(NatStr(rounded % scale), decimals)

\* format_str.format(x)
Format(format_str, x) ==
    format_str.prefix \o FormatFixed(x, format_str.decimals) \o format_str.suffix

\* f"{n:,}"
RECURSIVE FormatThousands(_)
FormatThousands(n) ==
    IF n < 1000 THEN NatStr(n)
    ELSE FormatThousands(n \div 1000) \o "," \o ZFill(NatStr(n % 1000), 3)

\* sub in s
Contains(s, sub) == \E i \in 1..(Len(s) - Len(sub) + 1) : SubSeq(s, i, i + Len(sub) - 1) = sub

\* the title that update_all puts above the map
TitleOf(bedroom_type, metric_type) ==
    "## " \o metric_type \o " Distribution - " \o bedroom_type \o " Units"

\* gdf['hover_text'] = gdf.apply(...) of create_map
WithHoverText(gdf, bedroom_type, metric_type) ==
    LET col == metric_col(bedroom_type, metric_type)
        format_str ==
            IF metric_type = "FMR" THEN Dollars
            ELSE IF metric_type \in {"Rent-to-Income Ratio", "Cost Burden",
                                     "Severe Cost Burden", "Voucher Feasibility",
                                     "FMR Deviation from Median Rent (%)"} THEN Percent
            ELSE IF metric_type = "Housing Wage" THEN DollarsPerHour
            ELSE Dollars
    IN  [i \in DOMAIN gdf |->
            Set(gdf[i], "hover_text",
                IF ~IsNaN(gdf[i][col])
                THEN Str("<b>" \o gdf[i].county_name.s \o "</b><br>State: "
                         \o gdf[i].state_name.s \o "<br>" \o metric_type \o ": "
                         \o Format(format_str, gdf[i][col]))
                ELSE Str(""))]

\* the body of create_map, on the frame that already has its hover_text
Figure(gdf, bedroom_type, metric_type) ==
    LET col == metric_col(bedroom_type, metric_type)
        prefix == IF metric_type \in {"Rent-to-Income Ratio", "Cost Burden",
                                      "Severe Cost Burden", "Voucher Feasibility",
                                      "FMR Deviation from Median Rent (%)"}
                  THEN "" ELSE "$"
    IN  [geojson |-> [i \in DOMAIN gdf |-> <<gdf[i].GEOID, gdf[i].geometry>>],
         locations |-> [i \in DOMAIN gdf |-> gdf[i].GEOID],
         z |-> [i \in DOMAIN gdf |-> gdf[i][col]],
         hovertext |-> [i \in DOMAIN gdf |-> gdf[i].hover_text],
         colorbar_title |-> metric_type,
         tickformat |-> IF Contains(metric_type, "FMR") THEN prefix \o ",.0f" ELSE ".1f",
         title |-> metric_type \o " Distribution - " \o bedroom_type \o " Units"]

\* a call of create_map through functools.lru_cache(maxsize=5): the figure, the
\* cache and the frame of load_data after the call
create_map(cache, gdf, bedroom_type, metric_type) ==
    LET key == <<bedroom_type, metric_type>>
        others == Keep(cache, [e \in {cache[i] : i \in DOMAIN cache} |-> e.key # key])
    IN  IF \E i \in DOMAIN cache : cache[i].key = key
        THEN LET hit == cache[CHOOSE i \in DOMAIN cache : cache[i].key = key]
             IN  [fig |-> hit.fig, cache |-> Append(others, hit), gdf |-> gdf]
        ELSE LET hovered == WithHoverText(gdf, bedroom_type, metric_type)
                 fig == Figure(hovered, bedroom_type, metric_type)
                 grown == Append(cache, [key |-> key, fig |-> fig])
             IN  [fig |-> fig,
                  cache |-> IF Len(grown) > 5 THEN Tail(grown) ELSE grown,
                  gdf |-> hovered]

\* the cells xs in increasing order
RECURSIVE Sorted(_)
Sorted(xs) ==
    IF xs = <<>> THEN <<>>
    ELSE LET rest == Tail(xs)
             lower == Keep(rest, [x \in {rest[i] : i \in DOMAIN rest} |-> FLt(x, Head(xs))])
             upper == Keep(rest, [x \in {rest[i] : i \in DOMAIN rest} |-> ~FLt(x, Head(xs))])
         IN  Sorted(lower) \o <<Head(xs)>> \o Sorted(upper)

\* Series.quantile(num / 4), linear interpolation, of the sorted cells
Quantile(sorted, num) ==
    LET h == (Len(sorted) - 1) * num
        lo == sorted[(h \div 4) + 1]
        hi == sorted[IF h % 4 = 0 THEN (h \div 4) + 1 ELSE (h \div 4) + 2]
    IN  FAdd(lo, FMul(Num(h % 4, 4), FSub(hi, lo)))

\* Series.sum() of the cells xs
Total(xs) == SumCells(xs, [i \in DOMAIN xs |-> i])

\* Series.std(): the square root of the variance with n - 1 degrees of freedom
Std(xs) ==
    LET n == Len(xs)
        mean == FDiv(Total(xs), Num(n, 1))
        squares == [i \in DOMAIN xs |-> FMul(FSub(xs[i], mean), FSub(xs[i], mean))]
        variance == FDiv(Total(squares), Num(n - 1, 1))
    IN  IF n < 2 \/ ~IsNum(variance) THEN NaN
        ELSE [k |-> "sqrt", n |-> variance.n, d |-> variance.d]

\* get_stats: the eight strings, or the ValueError of idxmin on no row
get_stats(gdf, bedroom_type, metric_type) ==
    LET col == metric_col(bedroom_type, metric_type)
        kept == Keep(gdf, [r \in {gdf[i] : i \in DOMAIN gdf} |-> ~IsNaN(r[col])])
        xs == [i \in DOMAIN kept |-> kept[i][col]]
        format_str == IF metric_type \in {"FMR", "Affordability Gap"} THEN Dollars
                      ELSE IF metric_type = "Housing Wage" THEN DollarsPerHour
                      ELSE Percent
        sorted == Sorted(xs)
        n == Len(xs)
        idxmin == CHOOSE i \in DOMAIN xs : xs[i] = sorted[1] /\ \A j \in 1..(i - 1) : xs[j] # xs[i]
        idxmax == CHOOSE i \in DOMAIN xs : xs[i] = sorted[n] /\ \A j \in 1..(i - 1) : xs[j] # xs[i]
        median == IF n % 2 = 1 THEN sorted[(n + 1) \div 2]
                  ELSE FDiv(FAdd(sorted[n \div 2], sorted[(n \div 2) + 1]), Num(2, 1))
    IN  IF n = 0 THEN [raised |-> TRUE, stats |-> <<>>]
        ELSE [raised |-> FALSE,
              stats |-> <<Format(format_str, FDiv(Total(xs), Num(n, 1))),
                          Format(format_str, median),
                          Format(format_str, sorted[1]) \o " (" \o kept[idxmin].county_name.s \o ")",
                          Format(format_str, sorted[n]) \o " (" \o kept[idxmax].county_name.s \o ")",
                          FormatThousands(n),
                          Format(format_str, Std(xs)),
                          Format(format_str, Quantile(sorted, 1)),
                          Format(format_str, Quantile(sorted, 3))>>]

\* update_all(bedroom_type, metric_type) run as an event handler: get_stats
\* first, create_map after it
UpdateAll(bedroom_type, metric_type) ==
    LET gdf == IF load_data_cache = <<>> THEN load_data(county_csv) ELSE load_data_cache[1]
        stats == get_stats(gdf, bedroom_type, metric_type)
        made == create_map(create_map_cache, gdf, bedroom_type, metric_type)
    IN  IF stats.raised
        THEN /\ load_data_cache' = <<gdf>>
             /\ handler_raised' = TRUE
             /\ UNCHANGED <<create_map_cache, map_output, map_title, stats_output>>
        ELSE /\ load_data_cache' = <<made.gdf>>
             /\ create_map_cache' = made.cache
             /\ map_output' = <<made.fig>>
             /\ map_title' = TitleOf(bedroom_type, metric_type)
             /\ stats_output' = stats.stats
             /\ handler_raised' = FALSE

MaxCountyRows == 2

\* the choices that the user tries
BedroomsTried == {bedroom_choices[1], bedroom_choices[3]}

MetricsTried == {metric_choices[3], metric_choices[5], metric_choices[7]}

\* a record of data/census_fmr_county.csv: every numeric column holds fill but
\* the ones given
CountyCsvRow(geoid, county_name, geometry, fmr, diff, gap, burdened) ==
    [c \in numeric_cols \cup {"GEOID", "county_name", "state_name", "geometry"} |->
        CASE c = "GEOID" -> Str(geoid)
          [] c = "county_name" -> Str(county_name)
          [] c = "state_name" -> Str("Alabama")
          [] c = "geometry" -> geometry
          [] c \in fmr_cols -> fmr
          [] c = "fmr_vs_median_rent_diff_0" -> diff[1]
          [] c = "fmr_vs_median_rent_diff_2" -> diff[2]
          [] c = "affordability_gap_0" -> gap[1]
          [] c = "affordability_gap_2" -> gap[2]
          [] c = "pct_cost_burdened" -> burdened
          [] OTHER -> Num(1, 1)]

CountyCsvRows ==
    {CountyCsvRow("01001", "AUTAUGA COUNTY", Str("POLYGON ((1 1, 2 1, 2 2, 1 1))"),
                  Num(800, 1), <<Num(-3, 1), Num(5, 1)>>, <<NaN, Num(12, 1)>>, Num(50, 1)),
     CountyCsvRow("01003", "BALDWIN COUNTY", Str("POLYGON ((3 3, 4 3, 4 4, 3 3))"),
                  Num(900, 1), <<Num(1, 2), NaN>>, <<Num(4, 1), Num(30, 1)>>, Num(125, 4)),
     CountyCsvRow("01005", "BARBOUR COUNTY", NaN,
                  Num(700, 1), <<Num(2, 1), Num(2, 1)>>, <<Num(7, 1), Num(7, 1)>>, Num(40, 1)),
     CountyCsvRow("01007", "BIBB COUNTY", Str("POLYGON ((5 5, 6 5, 6 6, 5 5))"),
                  Num(0, 1), <<Num(-9, 1), Num(-9, 1)>>, <<NaN, NaN>>, Num(60, 1))}

InitDash ==
    /\ county_csv \in SeqsUpTo(CountyCsvRows, MaxCountyRows)
    /\ load_data_cache = <<>>
    /\ create_map_cache = <<>>
    /\ bedroom_select = "2-Bedroom"
    /\ metric_select = "FMR vs Median Rent Difference"
    /\ map_output = NoFigure
    /\ map_title = LayoutTitle
    /\ stats_output = LayoutStats
    /\ handler_raised = FALSE
    /\ app_pc = "built"
    /\ PipelineIdle
    /\ GeoIdle
    /\ ApiIdle

\* app.load(lambda: update_all("2-Bedroom", "FMR vs Median Rent Difference"))
AppLoad ==
    /\ app_pc = "built"
    /\ app_pc' = "loaded"
    /\ UpdateAll("2-Bedroom", "FMR vs Median Rent Difference")
    /\ UNCHANGED <<county_csv, bedroom_select, metric_select>>
    /\ UNCHANGED <<pipelineVars, geoVars, apiVars>>

\* bedroom_select.change(update_all, inputs=[bedroom_select, metric_select])
BedroomChange ==
    /\ app_pc = "loaded"
    /\ \E b \in BedroomsTried \ {bedroom_select} :
          /\ bedroom_select' = b
          /\ UpdateAll(b, metric_select)
    /\ UNCHANGED <<county_csv, metric_select, app_pc>>
    /\ UNCHANGED <<pipelineVars, geoVars, apiVars>>

\* metric_select.change(update_all, inputs=[bedroom_select, metric_select])
MetricChange ==
    /\ app_pc = "loaded"
    /\ \E m \in MetricsTried \ {metric_select} :
          /\ metric_select' = m
          /\ UpdateAll(bedroom_select, m)
    /\ UNCHANGED <<county_csv, bedroom_select, app_pc>>
    /\ UNCHANGED <<pipelineVars, geoVars, apiVars>>

NextDash == AppLoad \/ BedroomChange \/ MetricChange

SpecDash == InitDash /\ [][NextDash]_vars

(***************************************************************************)
(* Properties                                                              *)
(***************************************************************************)
Done == pc \in {"integrated", "saved"}

OutRows == {df_integrated[i] : i \in DOMAIN df_integrated}

Zero == Num(0, 1)

\* the cell x is the number n/d
IsRatio(x, n, d) == IsNum(x) /\ x.n * d = n * x.d

\* C1: for every output record and every b, rent_to_income_ratio_b equals
\* fmr_b*12/median_household_income*100 when the income is nonzero; when the
\* income is zero (a missing income is filled with zero) integrate_data still
\* returns and the record holds a value (a double) in that column.
C1_RentToIncomeRatio ==
    Done =>
        \A r \in OutRows : \A b \in Beds :
            LET ratio  == r[Col("rent_to_income_ratio", b)]
                fmr    == r[Col("fmr", b)]
                income == r["median_household_income"]
            IN  /\ income.n # 0 =>
                    IsRatio(ratio, fmr.n * 1200 * income.d, income.n * fmr.d)
                /\ income.n = 0 => ratio.k \in {"num", "nan", "inf"}

C1_Witness ==
    /\ Done
    /\ \E r \in OutRows :
        /\ r["median_household_income"] = Num(40000, 1)
        /\ r["fmr_2"] = Num(1000, 1)
        /\ r["rent_to_income_ratio_2"] = Num(30, 1)
    /\ \E r \in OutRows :
        /\ r["median_household_income"] = Zero
        /\ IsNaN(r["rent_to_income_ratio_2"])

\* C2: for every output record and every b, affordability_gap_b is null exactly
\* when fmr_b*12 - median_household_income*0.3 is <= 0, and is otherwise that
\* value, so it is never negative when it is not null.
C2_AffordabilityGap ==
    Done =>
        \A r \in OutRows : \A b \in Beds :
            LET gap    == r[Col("affordability_gap", b)]
                fmr    == r[Col("fmr", b)]
                income == r["median_household_income"]
                \* ten times the unclamped value, times the two denominators
                u      == 120 * fmr.n * income.d - 3 * income.n * fmr.d
            IN  /\ IsNaN(gap) <=> u <= 0
                /\ ~IsNaN(gap) => /\ IsRatio(gap, u, 10 * fmr.d * income.d)
                                  /\ gap.n >= 0

C2_Witness ==
    /\ Done
    /\ \E r \in OutRows :
        /\ r["median_household_income"] = Num(40000, 1)
        /\ r["fmr_2"] = Num(1000, 1)
        /\ IsNaN(r["affordability_gap_2"])
        /\ r["affordability_gap_3"] = Num(1200, 1)
        /\ r["fmr_0"] = Num(800, 1)
        /\ IsNaN(r["affordability_gap_0"])

\* C3: for every output record and every b, voucher_feasibility_b is not
\* +infinity and not -infinity, also when median_gross_rent is zero or missing
\* while fmr_b is not zero.
C3_VoucherFinite ==
    Done => \A r \in OutRows : \A b \in Beds : ~IsInf(r[Col("voucher_feasibility", b)])

C3_Witness ==
    /\ Done
    /\ \E r \in OutRows :
        /\ r["median_gross_rent"] = Zero
        /\ r["fmr_2"] = Num(1000, 1)
        /\ r["voucher_feasibility_2"] = Zero

RowsOf(df) == {df[i] : i \in DOMAIN df}

GeoidsOf(df) == {df[i]["GEOID"] : i \in DOMAIN df}

\* a missing value taken as zero
Filled(x) == IF IsNaN(x) THEN Zero ELSE x

\* the records of the county attribute table that integrate_data was given for
\* the county of the output record r
CensusOf(r) == {c \in RowsOf(df_census) : c["GEOID"] = r["GEOID"]}

\* the output records of a county that the rent table does not have
AbsentFromRent == {r \in OutRows : r["GEOID"] \notin GeoidsOf(df_fmr)}

C5_Original ==
    Done => \A f \in RowsOf(df_fmr) : \E r \in OutRows : r["GEOID"] = f["GEOID"]

\* C5: the join keeps the county attribute table: every record of it is in
\* the output, and a rent record whose geographic id matches no record of the
\* county attribute table is not.
C5_CountyPreservingJoin ==
    Done =>
        /\ \A c \in RowsOf(df_census) : \E r \in OutRows : r["GEOID"] = c["GEOID"]
        /\ \A r \in OutRows : r["GEOID"] \in GeoidsOf(df_census)

C5_Witness ==
    /\ Done
    /\ \E f \in RowsOf(df_fmr) : f["GEOID"] \notin GeoidsOf(df_census)
    /\ \E r \in OutRows : r["GEOID"] \in GeoidsOf(df_fmr)
    /\ \E r \in OutRows : r["GEOID"] \notin GeoidsOf(df_fmr)

\* C6 as stated: fmr_vs_median_rent_percent_b is null if and only if the input
\* median_gross_rent is zero or missing or fmr_1 is zero, and is otherwise
\* (fmr_b - median_gross_rent) / median_gross_rent * 100 of the input rent.
C6_Original ==
    Done =>
        \A r \in OutRows : \A c \in CensusOf(r) : \A b \in Beds :
            LET rent    == Filled(c["median_gross_rent"])
                fmr     == r[Col("fmr", b)]
                percent == r[Col("fmr_vs_median_rent_percent", b)]
                null    == rent = Zero \/ r["fmr_1"] = Zero
            IN  /\ IsNaN(percent) <=> null
                /\ ~null => IsRatio(percent, (fmr.n * rent.d - rent.n * fmr.d) * 100,
                                    fmr.d * rent.n)

\* C7 as stated: fmr_vs_median_rent_diff_b is fmr_b minus the input
\* median_gross_rent (a missing one taken as zero), whatever the other fields.
C7_Original ==
    Done =>
        \A r \in OutRows : \A c \in CensusOf(r) : \A b \in Beds :
            LET rent == Filled(c["median_gross_rent"])
                fmr  == r[Col("fmr", b)]
            IN  IsRatio(r[Col("fmr_vs_median_rent_diff", b)],
                        fmr.n * rent.d - rent.n * fmr.d, fmr.d * rent.d)

NullOrZero(x) == IsNaN(x) \/ x = Zero

\* C8 as stated: every derived column whose denominator is zero or missing is
\* null or zero, never +infinity or -infinity.
C8_Original ==
    Done =>
        \A r \in OutRows : \A c \in CensusOf(r) : \A b \in Beds :
            /\ r["median_household_income"] = Zero =>
                   NullOrZero(r[Col("rent_to_income_ratio", b)])
            /\ r["total_renter_households_cost"] = Zero =>
                   /\ NullOrZero(r["pct_cost_burdened"])
                   /\ NullOrZero(r["pct_severe_cost_burdened"])
            /\ Filled(c["median_gross_rent"]) = Zero =>
                   /\ NullOrZero(r[Col("fmr_vs_median_rent_percent", b)])
                   /\ NullOrZero(r[Col("voucher_feasibility", b)])
            /\ NullOrZero(r["min_wage"]) =>
                   NullOrZero(r[Col("housing_wage_to_min_wage", b)])

\* the rent records that integrate_data was given for the county of r
FmrOf(r) == {f \in RowsOf(df_fmr) : f["GEOID"] = r["GEOID"]}

\* C9 as stated: every input column of the two tables is in the output with
\* its input value, a missing value being replaced by zero.
C9_Original ==
    Done =>
        \A r \in OutRows :
            /\ (CensusCols \cup FmrCols) \subseteq DOMAIN r
            /\ \E c \in CensusOf(r) : \A col \in CensusCols : r[col] = Filled(c[col])
            /\ IF FmrOf(r) = {}
               THEN \A col \in FmrCols \ {"GEOID"} : r[col] = Zero
               ELSE \E f \in FmrOf(r) : \A col \in FmrCols : r[col] = Filled(f[col])

\* C10: the output records of a county are those that integrate_data gives on
\* the records of that county alone (its attribute records, its rent records
\* and the minimum-wage rows of its state).  Two runs whose inputs agree on
\* these records therefore give the county the same derived fields, whatever
\* the other records are.
C10_PerRecord ==
    Done =>
        \A g \in GeoidsOf(df_census) :
            LET census == HasKey(df_census, "GEOID", {g})
                states == {census[i]["state_fips"] : i \in DOMAIN census}
            IN  HasKey(df_integrated, "GEOID", {g}) =
                    integrate_data(census, HasKey(df_fmr, "GEOID", {g}),
                                   HasKey(min_wage_csv, "state_fips", states))

C10_Witness ==
    /\ Done
    /\ Cardinality(GeoidsOf(df_integrated)) > 1
    /\ \E f \in RowsOf(df_fmr) : f["GEOID"] \notin GeoidsOf(df_census)
    /\ \E r \in OutRows :
        /\ r["GEOID"] = Str("01001")
        /\ r["fmr_2"] = Num(1000, 1)
        /\ r["min_wage"] = Num(29, 4)
        /\ r["pct_cost_burdened"] = Num(40, 1)

\* C11: for every output record with a nonzero total_renter_households_cost,
\* pct_cost_burdened is the sum of the four cost-burden buckets over that total
\* times 100 and pct_severe_cost_burdened is rent_50_percent_or_more over that
\* total times 100, so the severe share never exceeds the burdened share (the
\* counts are not negative).
C11_CostBurden ==
    Done =>
        \A r \in OutRows :
            LET total  == r["total_renter_households_cost"]
                severe == r["rent_50_percent_or_more"]
                sum    == r["rent_30_to_34_9_percent"].n + r["rent_35_to_39_9_percent"].n
                            + r["rent_40_to_49_9_percent"].n + severe.n
                pct    == r["pct_cost_burdened"]
                pct50  == r["pct_severe_cost_burdened"]
            IN  total.n # 0 =>
                    /\ \A c \in {"rent_30_to_34_9_percent", "rent_35_to_39_9_percent",
                                 "rent_40_to_49_9_percent", "rent_50_percent_or_more"} :
                           r[c].d = 1 /\ r[c].n >= 0
                    /\ IsRatio(pct, sum * 100 * total.d, total.n)
                    /\ IsRatio(pct50, severe.n * 100 * total.d, total.n)
                    /\ pct50.n * pct.d <= pct.n * pct50.d

C11_Witness ==
    /\ Done
    /\ \E r \in OutRows :
        /\ r["total_renter_households_cost"] = Num(100, 1)
        /\ r["pct_cost_burdened"] = Num(40, 1)
        /\ r["pct_severe_cost_burdened"] = Num(20, 1)

\* at most one row of the minimum-wage table per state_fips
OneWagePerState ==
    \A i, j \in DOMAIN min_wage_csv :
        min_wage_csv[i]["state_fips"] = min_wage_csv[j]["state_fips"] => i = j

DigitValue(ch) == CHOOSE v \in 0..9 : Digit[v + 1] = ch

\* the number that a string of decimal digits writes
RECURSIVE StrNat(_)
StrNat(s) ==
    IF Len(s) = 0 THEN 0
    ELSE 10 * StrNat(SubSeq(s, 1, Len(s) - 1)) + DigitValue(SubSeq(s, Len(s), Len(s)))

CensusLoaded == pc # "start"

FmrLoaded == pc \notin {"start", "census_loaded"}

\* C13 as stated: for every input id value, every GEOID returned by
\* get_census_data and by load_fmr_data, and every GEOID of the output of
\* integrate_data, is a string of exactly 5 characters.
C13_Original ==
    /\ CensusLoaded => \A r \in RowsOf(df_census) : Len(r["GEOID"].s) = 5
    /\ FmrLoaded => \A r \in RowsOf(df_fmr) : Len(r["GEOID"].s) = 5
    /\ Done => \A r \in OutRows : Len(r["GEOID"].s) = 5

\* the GEOID string s writes the id value v: padded to 5 characters with
\* leading zeros when v has at most 5 digits, kept whole when it has more
PaddedId(s, v) ==
    /\ StrNat(s) = v
    /\ v < 100000 => Len(s) = 5
    /\ v >= 100000 => Len(s) > 5

\* C13: for every input id value of at most 5 digits, every GEOID returned by
\* get_census_data and by load_fmr_data, and every GEOID of the output of
\* integrate_data, is a string of exactly 5 characters, the id left-padded
\* with '0'; an id of more than 5 digits is kept whole, longer than 5.
C13_ZeroPadded ==
    /\ CensusLoaded =>
           /\ Len(df_census) = Len(census_csv)
           /\ \A i \in DOMAIN df_census :
                  PaddedId(df_census[i]["GEOID"].s, census_csv[i]["GEOID"].n)
    /\ FmrLoaded =>
           /\ Len(df_fmr) = Len(fmr_csv)
           /\ \A i \in DOMAIN df_fmr :
                  PaddedId(df_fmr[i]["GEOID"].s, fmr_csv[i]["GEOID"].n)
    /\ Done => \A r \in OutRows : r["GEOID"] \in GeoidsOf(df_census)

C13_Witness ==
    /\ Done
    /\ census_csv[1]["GEOID"] = Num(1001, 1)
    /\ df_integrated[1]["GEOID"] = Str("01001")
    /\ fmr_csv[1]["GEOID"] = Num(9, 1)
    /\ df_fmr[1]["GEOID"] = Str("00009")

\* C14: the padding step applied again to a GEOID that get_census_data or
\* load_fmr_data returned leaves it unchanged: pad(pad(x)) = pad(x).
C14_PadIdempotent ==
    /\ CensusLoaded => \A r \in RowsOf(df_census) : PadGeoid(r["GEOID"]) = r["GEOID"]
    /\ FmrLoaded => \A r \in RowsOf(df_fmr) : PadGeoid(r["GEOID"]) = r["GEOID"]

C14_Witness ==
    /\ FmrLoaded
    /\ census_csv[1]["GEOID"] = Num(99, 1)
    /\ df_census[1]["GEOID"] = Str("00099")
    /\ PadGeoid(Str("00099")) = Str("00099")
    /\ fmr_csv[1]["GEOID"] = Num(100000, 1)
    /\ df_fmr[1]["GEOID"] = Str("100000")

\* What each line of the listing is, read off the listing itself: a state
\* header (2-digit code, upper-case name), a county line (5-digit code, name)
\* or neither.
LineKind(line) ==
    CASE line = "01        ALABAMA" -> [kind |-> "state", code |-> "01"]
      [] line = "02        ALASKA" -> [kind |-> "state", code |-> "02"]
      [] line = "01000        Alabama" -> [kind |-> "county", code |-> "01000"]
      [] line = "01001        Autauga County" -> [kind |-> "county", code |-> "01001"]
      [] line = "\t02013  Aleutians East Borough " -> [kind |-> "county", code |-> "02013"]
      [] OTHER -> [kind |-> "other", code |-> ""]

\* a state header is among the first n lines
HeaderSeen(lines, n) == \E i \in 1..n : LineKind(lines[i]).kind = "state"

\* the codes of the county lines among the first n lines that come after a
\* state header and do not end in 000, in the order of the lines
RECURSIVE QualifyingCodes(_, _)
QualifyingCodes(lines, n) ==
    IF n = 0 THEN <<>>
    ELSE LET k == LineKind(lines[n])
         IN  IF /\ k.kind = "county"
                /\ SubSeq(k.code, 3, 5) # "000"
                /\ HeaderSeen(lines, n - 1)
             THEN Append(QualifyingCodes(lines, n - 1), k.code)
             ELSE QualifyingCodes(lines, n - 1)

\* C17: for any sequence of input lines the builder emits, in input order,
\* exactly one record per county line whose code does not end in 000 and that
\* comes after a state header; county lines before the first header are
\* dropped, no GEOID ends in 000, and the STATEFP written is the first two
\* digits of the GEOID, whatever the code of the most recent header.  (With no
\* such line the script stops on KeyError and writes no file.)
C17_CountyRecords ==
    /\ geo_pc = "loop" =>
          [i \in DOMAIN counties_data |-> counties_data[i].GEOID]
              = QualifyingCodes(response.text, line_no)
    /\ geo_pc = "saved" =>
          /\ [i \in DOMAIN county_geoid_csv |-> county_geoid_csv[i].GEOID]
                 = QualifyingCodes(response.text, Len(response.text))
          /\ \A i \in DOMAIN county_geoid_csv :
                /\ SubSeq(county_geoid_csv[i].GEOID, 3, 5) # "000"
                /\ county_geoid_csv[i].STATEFP = SubSeq(county_geoid_csv[i].GEOID, 1, 2)
    /\ geo_pc = "raised KeyError" =>
          /\ QualifyingCodes(response.text, Len(response.text)) = <<>>
          /\ county_geoid_csv = <<>>

\* a county line before the first header is dropped, the same line after the
\* header of another state is written with the state of its own code
C17_Witness ==
    /\ geo_pc = "saved"
    /\ response.text = <<"01001        Autauga County", "02        ALASKA",
                         "01001        Autauga County">>
    /\ current_state_fips = "02"
    /\ Len(county_geoid_csv) = 1
    /\ county_geoid_csv[1].STATEFP = "01"
    /\ county_geoid_csv[1].county_name = "AUTAUGA COUNTY"

\* C15: whenever a fetcher (the three methods of CensusAPIWrapper through
\* _make_request, the FCC request of the geo-identifier builder) receives a
\* response whose status is not 200, exactly one GET has been issued, the
\* failure carrying the status and the body text is raised, and no table or
\* output file is produced from the body.
C15_Original ==
    /\ (api_pc \in {"raised", "returned"} /\ api_response.status_code # 200) =>
          /\ api_get_count = 1
          /\ api_raised = <<[type |-> "Exception", message |-> FailureMessage(api_response)]>>
          /\ api_df = <<>>
    /\ (geo_pc \in {"saved", "raised KeyError"} /\ response.status_code # 200) =>
          /\ get_count = 1
          /\ geo_pc # "saved"
          /\ county_geoid_csv = <<>>

\* the half of C15 that is about CensusAPIWrapper
ApiFailureIsFatal ==
    (api_pc \in {"raised", "returned"} /\ api_response.status_code # 200) =>
        /\ api_get_count = 1
        /\ api_raised = <<[type |-> "Exception", message |-> FailureMessage(api_response)]>>
        /\ api_df = <<>>

\* the server answers 404 with a body that holds a county line: the file is written
GeoFileFromFailedFetch ==
    /\ geo_pc = "saved"
    /\ response.status_code = 404
    /\ county_geoid_csv # <<>>

\* the map, the title and the statistics of a selection, computed from the
\* file with no cache
Displayed(bedroom_type, metric_type) ==
    LET gdf == load_data(county_csv)
    IN  [map |-> <<create_map(<<>>, gdf, bedroom_type, metric_type).fig>>,
         title |-> TitleOf(bedroom_type, metric_type),
         stats |-> get_stats(gdf, bedroom_type, metric_type)]

\* C16: after the initial page load and after any sequence of changes of the
\* two dropdowns, the displayed map, title and eight statistics are those of
\* the currently selected (bedroom, metric) pair computed over the loaded
\* records whose selected metric is non-null, whatever the earlier selections
\* and the contents of create_map's cache.
C16_Original ==
    app_pc = "loaded" =>
        LET shown == Displayed(bedroom_select, metric_select)
        IN  /\ map_output = shown.map
            /\ map_title = shown.title
            /\ ~shown.stats.raised
            /\ stats_output = shown.stats.stats

\* the same, for the selections whose handler has not raised
DisplayFollowsSelection ==
    (app_pc = "loaded" /\ ~handler_raised) =>
        LET shown == Displayed(bedroom_select, metric_select)
        IN  /\ map_output = shown.map
            /\ map_title = shown.title
            /\ ~shown.stats.raised
            /\ stats_output = shown.stats.stats

\* a figure is taken from the cache after six selections have been drawn
CachedFigureShown ==
    /\ app_pc = "loaded"
    /\ ~handler_raised
    /\ Len(create_map_cache) = 5
    /\ create_map_cache[5].key = <<bedroom_select, metric_select>>
    /\ create_map_cache[5].fig.hovertext # [i \in DOMAIN load_data_cache[1] |->
                                               load_data_cache[1][i].hover_text]

\* the selection has changed and the page still shows the earlier one
StaleDisplay ==
    /\ app_pc = "loaded"
    /\ handler_raised
    /\ map_output # NoFigure
    /\ map_title # TitleOf(bedroom_select, metric_select)

=============================================================================
